---- MODULE Spec2Model ----
(***************************************************************************)
(* State-machine model of the data-plane WorkerBroker / Worker /           *)
(* PendingRequest classes of src/src/data_plane/worker_broker.ts.          *)
(*                                                                         *)
(* JavaScript runs every piece of code between two awaits to completion,   *)
(* so each action below is one such piece: a public call up to its first   *)
(* suspension, or the continuation that runs when a delegate RPC, a timer  *)
(* or a response stream settles (together with the promise reactions that *)
(* are chained on it, which run back to back from the microtask queue).    *)
(***************************************************************************)
EXTENDS Integers, Sequences, FiniteSets, TLC

\* ---------------------------------------------------------------- bounds
MaxReq == 3          \* invoke calls per behaviour
MaxBind == 2         \* bindWorker calls (Worker objects) per behaviour
MaxRegisterError == 1  \* registerCredential calls that throw, per credential

ReqIds == 1..MaxReq
WorkerIds == 1..MaxBind
Credentials == {"c1", "c2"}
Names == {"hello"}

\* ------------------------------------------------------ enum RequestQueueStatus
PASS_THROUGH == "PASS_THROUGH"
QUEUEING == "QUEUEING"

\* ------------------------------------------------------ enum CredentialStatus
PENDING == "PENDING"
BOUND == "BOUND"

\* The function profiles a broker is constructed with (this._profile).
\* rateLimit is the bucket's maxTokens; 0 stands for "no rateLimit configured".
Profiles ==
  { [disposable |-> FALSE, maxActivateRequests |-> 2, disableRequestQueue |-> FALSE,
     fastFailRequestsOnStarting |-> TRUE, rateLimit |-> 1],
    [disposable |-> TRUE, maxActivateRequests |-> 2, disableRequestQueue |-> FALSE,
     fastFailRequestsOnStarting |-> FALSE, rateLimit |-> 0],
    [disposable |-> FALSE, maxActivateRequests |-> 1, disableRequestQueue |-> TRUE,
     fastFailRequestsOnStarting |-> FALSE, rateLimit |-> 1] }

VARIABLES
  profile,             \* WorkerBroker._profile
  requestQueue,        \* WorkerBroker.requestQueue: sequence of request ids
  requestQueueStatus,  \* WorkerBroker.requestQueueStatus
  workerMap,           \* WorkerBroker._workerMap: credential -> WorkerItem
  workerHeap,          \* WorkerBroker._workerHeap: the Worker objects in the array
  workers,             \* the Worker objects ever constructed, by identity
  requests,            \* every invoke call and its PendingRequest, if any
  tokens,              \* tokens left in WorkerBroker.tokenBucket
  dispatched,          \* request ids in the order tryConsumeQueue piped them
  registerErrors,      \* registerCredential calls that threw, per credential
  \* the control plane (DefaultController and what it reads)
  statsBroker,         \* the Broker of the state manager's snapshot, with its workers
  defaultShrinkStrategy, \* config.worker.defaultShrinkStrategy
  shrinking,           \* DefaultController.shrinking
  doShrinkAt,          \* where the running doShrink is suspended, or "idle"
  shrinkData,          \* doShrink's shrinkData while it is suspended
  ensured,             \* what the last reduceCapacity call resolved with
  stopCalls,           \* stopWorker calls of the running doShrink, per worker name
  changes,             \* records replaced or removed behind the controller's back
  autoScales,          \* the calls of DefaultController.autoScale
  queueings            \* the calls of DefaultController.expandDueToQueueingRequest

\* The variables of the data-plane broker and those of the control plane.
bvars == <<profile, requestQueue, requestQueueStatus, workerMap, workerHeap,
           workers, requests, tokens, dispatched, registerErrors>>

cvars == <<statsBroker, defaultShrinkStrategy, shrinking, doShrinkAt, shrinkData,
           ensured, stopCalls, changes>>

\* The event handlers of the control plane.
avars == <<autoScales, queueings>>

vars == <<bvars, cvars, avars>>

\* ------------------------------------------------------------ initial values
NoItem == [status |-> "NONE", name |-> "", worker |-> 0]

NoWorker == [init |-> "none", credential |-> "", name |-> "",
             activeRequestCount |-> 0, trafficOff |-> FALSE,
             served |-> 0, closing |-> FALSE, drained |-> FALSE]

NoRequest == [state |-> "new", w |-> 0, debuggerTag |-> FALSE, pending |-> FALSE,
              available |-> FALSE, timer |-> "none",
              resolves |-> 0, rejects |-> 0, err |-> "none", queueing |-> 0]

\* ------------------------------------------- control plane: initial values
MaxShrink == 3       \* largest number of workers one shrink delta asks to retire
MaxChange == 1       \* worker records replaced or removed per behaviour
MaxCount == 1        \* largest activeRequestCount a worker reports

WorkerNames == {"coco", "cocos", "alibaba"}
RegisterTimes == {1, 2}

\* The credentials the workers are registered with, by their rank in the order
\* of JavaScript's string comparison ('2d' < 'nut' < 'seed of hope').
credentialRank == [coco |-> 2, cocos |-> 1, alibaba |-> 3]

\* broker.data.worker.shrinkStrategy: the supported values, an unsupported one,
\* and "undefined" for a profile that does not set it.
ShrinkStrategies == {"FILO", "FIFO", "LCC", "RANDOM", "undefined"}

\* What getWorker returns for a name the state manager does not know.
NoStatsWorker == [name |-> "", credential |-> 0, status |-> "none",
                  registerTime |-> 0, activeRequestCount |-> 0]

\* The event handler calls a behaviour follows.
MaxAuto == 2         \* autoScale calls per behaviour
MaxQueueing == 2     \* RequestQueueing events per behaviour

AutoIds == 1..MaxAuto
EventIds == 1..MaxQueueing

\* An autoScale call that has not been made: where it is, what its two expand
\* calls do, the errors it has captured and how it settled.
NoAutoScale == [pc |-> "new", regular |-> "none", reservation |-> "none",
                errors |-> <<>>, outcome |-> "none"]

\* An expandDueToQueueingRequest call that has not been made.  client, allow,
\* profiled: the event's client, the capacity manager's answer and whether the
\* function has a profile; tryLaunch, sync: how often the call was made;
\* fastFail: the clients startWorkerFastFail was sent to; launch, fastFailRpc,
\* syncRpc: how the three calls stand.
NoQueueing == [pc |-> "new", client |-> "", allow |-> FALSE, profiled |-> FALSE,
               tryLaunch |-> 0, launch |-> "none",
               fastFail |-> <<>>, fastFailRpc |-> "none",
               sync |-> 0, syncRpc |-> "none", outcome |-> "none"]

\* No shrink is running and no event is being handled.
ControllerIdle ==
  /\ shrinking = FALSE
  /\ doShrinkAt = "idle"
  /\ shrinkData = <<>>
  /\ ensured = <<>>
  /\ stopCalls = [n \in WorkerNames |-> 0]
  /\ changes = 0
  /\ autoScales = [i \in AutoIds |-> NoAutoScale]
  /\ queueings = [e \in EventIds |-> NoQueueing]

\* A control plane with no worker, which stays as it is.
ControllerQuiet ==
  /\ ControllerIdle
  /\ statsBroker = [name |-> "lambda", isInspector |-> FALSE, disposable |-> FALSE,
                    hasData |-> FALSE, shrinkStrategy |-> "undefined",
                    order |-> <<>>,
                    workers |-> [n \in WorkerNames |-> NoStatsWorker]]
  /\ defaultShrinkStrategy = "LCC"

Init ==
  /\ ControllerQuiet
  /\ profile \in Profiles
  /\ requestQueue = <<>>
  /\ requestQueueStatus = PASS_THROUGH
  /\ workerMap = [c \in Credentials |-> NoItem]
  /\ workerHeap = {}
  /\ workers = [w \in WorkerIds |-> NoWorker]
  /\ requests = [r \in ReqIds |-> NoRequest]
  /\ tokens = profile.rateLimit
  /\ dispatched = <<>>
  /\ registerErrors = [c \in Credentials |-> 0]

\* The part of the state the helpers below transform.
Cur == [queue |-> requestQueue, status |-> requestQueueStatus,
        workers |-> workers, requests |-> requests, log |-> dispatched]

\* A Worker object that nothing refers to any more (not in the array, not in the
\* map, no call in flight on it, no bindWorker holding it) is garbage: the model
\* forgets its fields.
referenced(ws, heap, map, reqs, w) ==
  \/ w \in heap
  \/ \E c \in Credentials : map[c].worker = w
  \/ \E r \in ReqIds : reqs[r].w = w
  \/ ws[w].init \in {"none", "pending", "failed"}

collect(ws, heap, map, reqs) ==
  [w \in WorkerIds |->
     IF referenced(ws, heap, map, reqs, w) THEN ws[w]
     ELSE [NoWorker EXCEPT !.init = "gone"]]

Commit(st) ==
  /\ requestQueue' = st.queue
  /\ requestQueueStatus' = st.status
  /\ workers' = collect(st.workers, workerHeap, workerMap, st.requests)
  /\ requests' = st.requests
  /\ dispatched' = st.log

\* ------------------------------------------------------------------ getters
disposable == profile.disposable

maxActivateRequests ==
  IF disposable THEN 1 ELSE profile.maxActivateRequests

\* ------------------------------------------------------------------- Worker
isWorkerFree(st, w) ==
  IF st.workers[w].trafficOff THEN FALSE
  ELSE maxActivateRequests > st.workers[w].activeRequestCount

\* Worker.pipe, line 166: this.activeRequestCount++
PipeCount_Skip(n) == n

PipeCount(n) == n + 1

\* Worker.pipe up to its first await, for request r on worker w.  A disposable
\* worker with a debuggerTag awaits inspectorStart before it counts the request.
\* served: how many requests a disposable worker has been handed so far.
pipe(st, r, w) ==
  IF disposable /\ st.requests[r].debuggerTag
  THEN [st EXCEPT !.requests[r].state = "inspect", !.requests[r].w = w,
                  !.workers[w].served = @ + 1]
  ELSE [st EXCEPT !.requests[r].state = "trigger", !.requests[r].w = w,
                  !.requests[r].debuggerTag = FALSE,
                  !.workers[w].served = IF disposable THEN @ + 1 ELSE @,
                  !.workers[w].activeRequestCount = PipeCount(@)]

\* Worker.closeTraffic followed by WorkerBroker.closeTraffic's broadcast of
\* RequestDrained: at once when the worker is idle, else on the next downToZero.
\* closing: some closeTraffic call is waiting for downToZero;
\* drained: RequestDrained has been broadcast for the worker.
closeTraffic(st, w) ==
  IF st.workers[w].activeRequestCount <= 0
  THEN [st EXCEPT !.workers[w].trafficOff = TRUE, !.workers[w].drained = TRUE]
  ELSE [st EXCEPT !.workers[w].trafficOff = TRUE, !.workers[w].closing = TRUE]

\* A downToZero that opens the worker's traffic again.
downToZero_Reopen(st, w) ==
  [st EXCEPT !.workers[w].drained = @ \/ st.workers[w].closing,
             !.workers[w].closing = FALSE,
             !.workers[w].trafficOff = FALSE]

\* emit('downToZero'): every closeTraffic waiting on it resolves and reports.
downToZero(st, w) ==
  [st EXCEPT !.workers[w].drained = @ \/ st.workers[w].closing,
             !.workers[w].closing = FALSE]

\* ----------------------------------------------------------- PendingRequest
stopTimer_Keep(req) == req

stopTimer(req) ==
  IF req.timer = "active" THEN [req EXCEPT !.timer = "stopped"] ELSE req

\* A call that has ended is no longer referenced by the broker or a worker: the
\* model keeps its outcome and forgets where it ran.
ended(req, state) == [req EXCEPT !.state = state, !.w = 0, !.debuggerTag = FALSE]

\* ------------------------------------------------------------- WorkerBroker
\* List.shift(): the head of the queue and what is left.
shift_Last(q) == [request |-> q[Len(q)], rest |-> SubSeq(q, 1, Len(q) - 1)]

shift(q) == [request |-> Head(q), rest |-> Tail(q)]

\* tryConsumeQueue, lines 362-364.
statusAfterConsume_Always(q, status) == PASS_THROUGH

statusAfterConsume(q, status) ==
  IF Len(q) = 0 THEN PASS_THROUGH ELSE status

RECURSIVE consumeLoop(_, _)
consumeLoop(st, w) ==
  IF Len(st.queue) = 0 THEN st
  ELSE IF ~isWorkerFree(st, w) THEN st
  ELSE
    LET s == shift(st.queue)
        r == s.request
        st1 == [st EXCEPT !.queue = s.rest]
    IN IF ~st1.requests[r].available THEN consumeLoop(st1, w)
       ELSE
         LET st2 == [st1 EXCEPT !.requests[r] = stopTimer(@)]
             st3 == pipe(st2, r, w)
             st4 == [st3 EXCEPT !.log = Append(@, r)]
         IN IF disposable THEN st4 ELSE consumeLoop(st4, w)

tryConsumeQueue(st, w) ==
  LET after == consumeLoop(st, w)
  IN [after EXCEPT !.status = statusAfterConsume(after.queue, after.status)]

\* The comparator of a heap that keeps the largest key on top.
keyLeq_Reversed(st, a, b) ==
  \/ st.workers[a].trafficOff
  \/ /\ ~st.workers[b].trafficOff
     /\ st.workers[a].activeRequestCount >= st.workers[b].activeRequestCount

\* MinHeap.heapify's comparator: trafficOff counts as Infinity.
keyLeq(st, a, b) ==
  \/ st.workers[b].trafficOff
  \/ /\ ~st.workers[a].trafficOff
     /\ st.workers[a].activeRequestCount <= st.workers[b].activeRequestCount

\* getAvailableWorker without the test of lines 527-531.
getAvailableWorker_NoCheck(st) ==
  { w \in workerHeap : \A v \in workerHeap : keyLeq(st, w, v) }

\* The workers heapify may leave at _workerHeap[0]: those of minimal key (which
\* one of several equal keys is the library's choice) that pass the test of
\* lines 527-531.  Empty when getAvailableWorker returns undefined.
getAvailableWorker(st) ==
  { w \in workerHeap :
      /\ \A v \in workerHeap : keyLeq(st, w, v)
      /\ ~st.workers[w].trafficOff
      /\ st.workers[w].activeRequestCount < maxActivateRequests }

\* createPendingRequest: a PendingRequest with its timer armed is pushed and
\* RequestQueueing is broadcast.
createPendingRequest(st, r) ==
  [st EXCEPT !.queue = Append(@, r),
             !.requests[r].state = "queued",
             !.requests[r].pending = TRUE,
             !.requests[r].available = TRUE,
             !.requests[r].timer = "active",
             !.requests[r].queueing = @ + 1]

\* _queueRequest without #checkRequestQueue.
queueRequest_NoCheck(st, r) ==
  createPendingRequest([st EXCEPT !.status = QUEUEING], r)

\* _queueRequest, with #checkRequestQueue first.
queueRequest(st, r) ==
  IF profile.disableRequestQueue
  THEN [st EXCEPT !.requests[r] = ended([@ EXCEPT !.err = "NO_WORKER",
                                                  !.queueing = @ + 1], "failed")]
  ELSE createPendingRequest([st EXCEPT !.status = QUEUEING], r)

\* The request id the next invoke call gets: ids are handed out in call order.
NewRequests == { r \in ReqIds : requests[r].state = "new" }
nextRequest == CHOOSE r \in NewRequests : \A q \in NewRequests : r <= q

\* this.tokenBucket?.acquire() ?? true
acquire == IF profile.rateLimit = 0 THEN TRUE ELSE tokens >= 1

\* The continuation of the caller of pipe once pipe has settled: tryConsumeQueue
\* settles the PendingRequest, invoke hands the result to its caller; both then
\* close the traffic of a disposable worker.
settle(st, r, ok) ==
  LET w == st.requests[r].w
      st1 == IF st.requests[r].pending
             THEN IF ok THEN [st EXCEPT !.requests[r].resolves = @ + 1]
                        ELSE [st EXCEPT !.requests[r].rejects = @ + 1]
             ELSE st
      st2 == IF ok THEN [st1 EXCEPT !.requests[r].state = "stream"]
             ELSE [st1 EXCEPT !.requests[r] = ended([@ EXCEPT !.err = "DELEGATE"], "failed")]
  IN IF disposable THEN closeTraffic(st2, w) ELSE st2

\* Worker.continueConsumeQueue
continueConsumeQueue(st, w) ==
  IF disposable THEN st
  ELSE IF isWorkerFree(st, w) THEN tryConsumeQueue(st, w) ELSE st

\* ------------------------------------------------------------------ actions
\* invoke without the test of the acquired token (lines 642-647).
Invoke_NoLimit(tag) ==
  /\ NewRequests # {}
  /\ LET r == nextRequest
         st0 == [Cur EXCEPT !.requests[r].debuggerTag = disposable /\ tag]
     IN /\ tokens' = IF profile.rateLimit = 0 \/ tokens = 0 THEN tokens ELSE tokens - 1
        /\ IF requestQueueStatus = QUEUEING
           THEN Commit(queueRequest(st0, r))
           ELSE IF getAvailableWorker(st0) = {}
                THEN Commit(queueRequest(st0, r))
                ELSE \E w \in getAvailableWorker(st0) : Commit(pipe(st0, r, w))
  /\ UNCHANGED <<cvars, avars, registerErrors, profile, workerMap, workerHeap>>

\* WorkerBroker.invoke, once ready() has resolved, up to its next suspension.
\* tag: metadata.debuggerTag is set; pipe reads it only on a disposable worker
\* (line 161), so the request keeps it only there, and until pipe has read it.
Invoke(tag) ==
  /\ NewRequests # {}
  /\ LET r == nextRequest
         st0 == [Cur EXCEPT !.requests[r].debuggerTag = disposable /\ tag]
     IN IF ~acquire
        THEN /\ Commit([st0 EXCEPT !.requests[r] =
                               ended([@ EXCEPT !.err = "RESOURCE_EXHAUSTED"], "failed")])
             /\ UNCHANGED tokens
        ELSE /\ tokens' = IF profile.rateLimit = 0 THEN tokens ELSE tokens - 1
             /\ IF requestQueueStatus = QUEUEING
                THEN Commit(queueRequest(st0, r))
                ELSE IF getAvailableWorker(st0) = {}
                     THEN Commit(queueRequest(st0, r))
                     ELSE \E w \in getAvailableWorker(st0) : Commit(pipe(st0, r, w))
  /\ UNCHANGED <<cvars, avars, registerErrors, profile, workerMap, workerHeap>>

\* The token bucket's periodic refill (one token per fill, up to maxTokens).
Refill ==
  /\ tokens < profile.rateLimit
  /\ tokens' = tokens + 1
  /\ UNCHANGED <<cvars, avars, registerErrors, profile, requestQueue, requestQueueStatus, workerMap, workerHeap,
                 workers, requests, dispatched>>

\* delegate.inspectorStart resolved: pipe goes on to count and trigger.
InspectorStartOk(r) ==
  /\ requests[r].state = "inspect"
  /\ Commit([Cur EXCEPT !.requests[r].state = "trigger",
                        !.requests[r].debuggerTag = FALSE,
                        !.workers[requests[r].w].activeRequestCount = PipeCount(@)])
  /\ UNCHANGED <<cvars, avars, registerErrors, profile, workerMap, workerHeap, tokens>>

\* delegate.inspectorStart rejected: pipe rejects before it counted the request.
InspectorStartFail(r) ==
  /\ requests[r].state = "inspect"
  /\ Commit(settle(Cur, r, FALSE))
  /\ UNCHANGED <<cvars, avars, registerErrors, profile, workerMap, workerHeap, tokens>>

\* delegate.trigger resolved: pipe returns the response, whose body is still
\* streaming.
TriggerOk(r) ==
  /\ requests[r].state = "trigger"
  /\ Commit(settle(Cur, r, TRUE))
  /\ UNCHANGED <<cvars, avars, registerErrors, profile, workerMap, workerHeap, tokens>>

\* delegate.trigger rejected: the catch block annotates and rethrows.
TriggerFail(r) ==
  /\ requests[r].state = "trigger"
  /\ Commit(settle(Cur, r, FALSE))
  /\ UNCHANGED <<cvars, avars, registerErrors, profile, workerMap, workerHeap, tokens>>

\* ret.finish() settled: lines 186-193.
Finish(r) ==
  /\ requests[r].state = "stream"
  /\ LET w == requests[r].w
         st1 == [Cur EXCEPT !.requests[r] = ended(@, "done"),
                            !.workers[w].activeRequestCount = @ - 1]
         st2 == IF st1.workers[w].activeRequestCount = 0
                THEN downToZero(st1, w) ELSE st1
     IN Commit(continueConsumeQueue(st2, w))
  /\ UNCHANGED <<cvars, avars, registerErrors, profile, workerMap, workerHeap, tokens>>

\* Timeout with a listener that leaves the node in the queue.
Timeout_KeepNode(r) ==
  /\ requests[r].timer = "active"
  /\ Commit([Cur EXCEPT
        !.requests[r] =
           LET fired == [@ EXCEPT !.timer = "fired", !.available = FALSE,
                                  !.rejects = @ + 1, !.err = "DEADLINE_EXCEEDED"]
           IN IF @.state = "queued" THEN ended(fired, "timedout") ELSE fired])
  /\ UNCHANGED <<cvars, avars, registerErrors, profile, workerMap, workerHeap, tokens>>

\* The PendingRequest's timer fires (lines 52-55) and the 'timeout' listener of
\* createPendingRequest runs (lines 562-579).
Timeout(r) ==
  /\ requests[r].timer = "active"
  /\ Commit([Cur EXCEPT
        !.queue = SelectSeq(@, LAMBDA x : x # r),
        !.requests[r] =
           LET fired == [@ EXCEPT !.timer = "fired", !.available = FALSE,
                                  !.rejects = @ + 1, !.err = "DEADLINE_EXCEEDED"]
           IN IF @.state = "queued" THEN ended(fired, "timedout") ELSE fired])
  /\ UNCHANGED <<cvars, avars, registerErrors, profile, workerMap, workerHeap, tokens>>

\* fastFailAllPendingsDueToStartError without the loop of lines 612-621.
rejectAll_None(reqs, q) == reqs

RECURSIVE rejectAll(_, _)
rejectAll(reqs, q) ==
  IF Len(q) = 0 THEN reqs
  ELSE LET r == Head(q)
           stopped == stopTimer(reqs[r])
       IN rejectAll([reqs EXCEPT ![r] = ended([stopped EXCEPT !.rejects = @ + 1,
                                                              !.err = "FAST_FAIL"],
                                              "fastfailed")],
                    Tail(q))

\* fastFailAllPendingsDueToStartError
FastFail(fatal) ==
  /\ IF ~fatal /\ ~profile.fastFailRequestsOnStarting
     THEN UNCHANGED <<requestQueue, requests>>
     ELSE /\ requestQueue' = <<>>
          /\ requests' = rejectAll(requests, requestQueue)
  /\ UNCHANGED <<cvars, avars, registerErrors, profile, requestQueueStatus, workerMap, workerHeap, workers,
                 tokens, dispatched>>

\* isCredentialPending comparing with the wrong status.
isCredentialPending_Bound(credential) == workerMap[credential].status = BOUND

\* isCredentialPending, lines 391-393.
isCredentialPending(credential) == workerMap[credential].status = PENDING

\* registerCredential on a credential that is not Pending (lines 406-410): the
\* entry is (re)set, also over a Bound one.  Registrations stop once MaxBind
\* Worker objects exist.
RegisterCredential(name, credential) ==
  /\ ~isCredentialPending(credential)
  /\ \E w \in WorkerIds : workers[w].init = "none"
  /\ workerMap' = [workerMap EXCEPT
                     ![credential] = [status |-> PENDING, name |-> name, worker |-> 0]]
  /\ UNCHANGED <<cvars, avars, registerErrors, profile, requestQueue, requestQueueStatus,
                 workerHeap, workers, requests, tokens, dispatched>>

\* registerCredential on a Pending credential (lines 401-405): it throws.
RegisterCredentialThrows(name, credential) ==
  /\ isCredentialPending(credential)
  /\ registerErrors[credential] < MaxRegisterError
  /\ registerErrors' = [registerErrors EXCEPT ![credential] = @ + 1]
  /\ UNCHANGED <<cvars, avars, profile, requestQueue, requestQueueStatus, workerMap,
                 workerHeap, workers, requests, tokens, dispatched>>

\* The Worker object the next bindWorker call constructs.
NewWorkers == { w \in WorkerIds : workers[w].init = "none" }
nextWorker == CHOOSE w \in NewWorkers : \A v \in NewWorkers : w <= v

\* bindWorker pushing the Worker into the array before the init call.
BindWorker_Early(credential) ==
  /\ workerMap[credential].status = PENDING
  /\ NewWorkers # {}
  /\ workers' = [workers EXCEPT ![nextWorker] =
                   [NoWorker EXCEPT !.init = "pending",
                                    !.credential = credential,
                                    !.name = workerMap[credential].name]]
  /\ workerHeap' = workerHeap \cup {nextWorker}
  /\ UNCHANGED <<cvars, avars, registerErrors, profile, requestQueue, requestQueueStatus, workerMap,
                 requests, tokens, dispatched>>

\* bindWorker up to the await of the delegate's init: it returns (unknown
\* credential) or throws (not Pending) without effect, and else constructs the
\* Worker.
BindWorker(credential) ==
  /\ workerMap[credential].status = PENDING
  /\ NewWorkers # {}
  /\ workers' = [workers EXCEPT ![nextWorker] =
                   [NoWorker EXCEPT !.init = "pending",
                                    !.credential = credential,
                                    !.name = workerMap[credential].name]]
  /\ UNCHANGED <<cvars, avars, registerErrors, profile, requestQueue, requestQueueStatus, workerMap, workerHeap,
                 requests, tokens, dispatched>>

\* The init trigger resolved: lines 509-516.
InitOk(w) ==
  /\ workers[w].init = "pending"
  /\ workerMap' = [workerMap EXCEPT ![workers[w].credential] =
                     [status |-> BOUND, name |-> workers[w].name, worker |-> w]]
  /\ workerHeap' = workerHeap \cup {w}
  /\ LET st1 == tryConsumeQueue([Cur EXCEPT !.workers[w].init = "ok"], w)
     IN /\ requestQueue' = st1.queue
        /\ requestQueueStatus' = st1.status
        /\ workers' = collect(st1.workers, workerHeap', workerMap', st1.requests)
        /\ requests' = st1.requests
        /\ dispatched' = st1.log
  /\ UNCHANGED <<cvars, avars, registerErrors, profile, tokens>>

\* The catch block of bindWorker without its rethrow: lines 509-516 run after
\* the failure.
InitFail_FallThrough(w) ==
  /\ workers[w].init = "pending"
  /\ workerMap' = [workerMap EXCEPT ![workers[w].credential] =
                     [status |-> BOUND, name |-> workers[w].name, worker |-> w]]
  /\ workerHeap' = workerHeap \cup {w}
  /\ LET st1 == tryConsumeQueue([Cur EXCEPT !.workers[w].init = "failed"], w)
     IN /\ requestQueue' = st1.queue
        /\ requestQueueStatus' = st1.status
        /\ workers' = collect(st1.workers, workerHeap', workerMap', st1.requests)
        /\ requests' = st1.requests
        /\ dispatched' = st1.log
  /\ UNCHANGED <<cvars, avars, registerErrors, profile, tokens>>

\* The init trigger rejected (lines 503-507): resetPeer(credential) is called
\* and the error rethrown to the caller of bindWorker.  init = "failed" records
\* both, with the credential resetPeer was called with.
InitFail(w) ==
  /\ workers[w].init = "pending"
  /\ workers' = [workers EXCEPT ![w] = [NoWorker EXCEPT !.init = "failed",
                                        !.credential = workers[w].credential]]
  /\ UNCHANGED <<cvars, avars, registerErrors, profile, requestQueue, requestQueueStatus, workerMap, workerHeap,
                 requests, tokens, dispatched>>

\* removeWorker: the map entry goes, and the first Worker of that credential
\* found in the array (the array's order is the heap library's).
RemoveWorker(credential) ==
  /\ workerMap' = [workerMap EXCEPT ![credential] = NoItem]
  /\ LET found == { w \in workerHeap : workers[w].credential = credential }
     IN IF found = {} THEN UNCHANGED workerHeap
        ELSE \E w \in found : workerHeap' = workerHeap \ {w}
  /\ workers' = collect(workers, workerHeap', workerMap', requests)
  /\ UNCHANGED <<cvars, avars, registerErrors, profile, requestQueue, requestQueueStatus, requests,
                 tokens, dispatched>>

Next ==
  \/ \E tag \in BOOLEAN : Invoke(tag)
  \/ Refill
  \/ \E r \in ReqIds : InspectorStartOk(r)
  \/ \E r \in ReqIds : InspectorStartFail(r)
  \/ \E r \in ReqIds : TriggerOk(r)
  \/ \E r \in ReqIds : TriggerFail(r)
  \/ \E r \in ReqIds : Finish(r)
  \/ \E r \in ReqIds : Timeout(r)
  \/ \E fatal \in BOOLEAN : FastFail(fatal)
  \/ \E name \in Names, credential \in Credentials : RegisterCredential(name, credential)
  \/ \E credential \in Credentials : BindWorker(credential)
  \/ \E w \in WorkerIds : InitOk(w)
  \/ \E w \in WorkerIds : InitFail(w)
  \/ \E credential \in Credentials : RemoveWorker(credential)

Spec == Init /\ [][Next]_vars

\* The credential lifecycle alone, with the registerCredential calls that throw
\* (which change nothing of what Spec follows).
NextCredential ==
  \/ \E name \in Names, credential \in Credentials : RegisterCredential(name, credential)
  \/ \E name \in Names, credential \in Credentials :
       RegisterCredentialThrows(name, credential)
  \/ \E credential \in Credentials : BindWorker(credential)
  \/ \E w \in WorkerIds : InitOk(w)
  \/ \E w \in WorkerIds : InitFail(w)
  \/ \E credential \in Credentials : RemoveWorker(credential)

SpecCredential == Init /\ [][NextCredential]_vars

\* ----------------------------------------------- control plane: DefaultController
\* Worker.isRunning() of the worker stats.
isRunning(w) == w.status = "Running"

\* StateManager.getWorker(functionName, inspector, name).
getWorker(broker, functionName, inspector, name) ==
  IF functionName = broker.name /\ inspector = broker.isInspector
  THEN broker.workers[name]
  ELSE NoStatsWorker

\* Array.from(broker.workers.values()): the records of the Map in its iteration
\* order, which is the order in which the names were inserted (broker.order).
values(broker) == [i \in 1..Len(broker.order) |-> broker.workers[broker.order[i]]]

\* The compare functions of mostIdleNWorkers, newestNWorkers, oldestNWorkers.
compareIdle_Reversed(a, b) ==
  IF a.activeRequestCount > b.activeRequestCount THEN -1
  ELSE IF a.activeRequestCount < b.activeRequestCount THEN 1
  ELSE IF a.credential < b.credential THEN -1 ELSE 1

compareIdle(a, b) ==
  IF a.activeRequestCount < b.activeRequestCount THEN -1
  ELSE IF a.activeRequestCount > b.activeRequestCount THEN 1
  ELSE IF a.credential < b.credential THEN -1 ELSE 1

compareNewest(a, b) ==
  IF a.registerTime > b.registerTime THEN -1
  ELSE IF a.registerTime < b.registerTime THEN 1
  ELSE IF a.credential < b.credential THEN -1 ELSE 1

compareOldest(a, b) ==
  IF a.registerTime < b.registerTime THEN -1
  ELSE IF a.registerTime > b.registerTime THEN 1
  ELSE IF a.credential < b.credential THEN -1 ELSE 1

compareFn(what, a, b) ==
  CASE what = "newest" -> compareNewest(a, b)
    [] what = "oldest" -> compareOldest(a, b)
    [] OTHER -> compareIdle(a, b)

\* Array.prototype.sort(compareFn), as a stable insertion sort: x goes before
\* the first element it compares less than.
insert(sorted, x, what) ==
  LET before == { i \in 1..Len(sorted) : compareFn(what, x, sorted[i]) < 0 }
      k == IF before = {} THEN Len(sorted) + 1
           ELSE CHOOSE i \in before : \A j \in before : i <= j
  IN SubSeq(sorted, 1, k - 1) \o <<x>> \o SubSeq(sorted, k, Len(sorted))

RECURSIVE sort(_, _)
sort(s, what) ==
  IF Len(s) = 0 THEN s
  ELSE insert(sort(SubSeq(s, 1, Len(s) - 1), what), s[Len(s)], what)

\* Array.prototype.slice(0, n)
slice(s, n) == SubSeq(s, 1, IF n < Len(s) THEN n ELSE Len(s))

\* mostWhatNWorkers without the isRunning filter.
mostWhatNWorkers_NoFilter(broker, n, what) ==
  LET nWorkers == slice(sort(values(broker), what), n)
  IN [i \in 1..Len(nWorkers) |->
        [name |-> nWorkers[i].name, credential |-> nWorkers[i].credential]]

mostWhatNWorkers(broker, n, what) ==
  LET running == SelectSeq(values(broker), isRunning)
      nWorkers == slice(sort(running, what), n)
  IN [i \in 1..Len(nWorkers) |->
        [name |-> nWorkers[i].name, credential |-> nWorkers[i].credential]]

mostIdleNWorkers(broker, n) == mostWhatNWorkers(broker, n, "idle")

newestNWorkers(broker, n) == mostWhatNWorkers(broker, n, "newest")

oldestNWorkers(broker, n) == mostWhatNWorkers(broker, n, "oldest")

\* shrinkDraw: the strategy is the profile's if the broker has a profile that
\* sets one, and the configured default otherwise.
shrinkDraw(broker, countToChoose) ==
  LET strategy ==
        IF broker.hasData
        THEN IF broker.shrinkStrategy # "undefined" THEN broker.shrinkStrategy
             ELSE defaultShrinkStrategy
        ELSE defaultShrinkStrategy
  IN CASE strategy = "FILO" -> newestNWorkers(broker, countToChoose)
       [] strategy = "FIFO" -> oldestNWorkers(broker, countToChoose)
       [] OTHER -> mostIdleNWorkers(broker, countToChoose)

\* doShrink without the test of broker.disposable (lines 884-886).
drawShrinkData_NoDisposable(count, broker) ==
  IF count >= 0 THEN <<>>
  ELSE IF broker.isInspector THEN <<>>
  ELSE << [functionName |-> broker.name, inspector |-> broker.isInspector,
           workers |-> shrinkDraw(broker, -count)] >>

\* doShrink, lines 877-899: what one delta {count, broker} adds to shrinkData.
drawShrinkData(count, broker) ==
  IF count >= 0 THEN <<>>
  ELSE IF broker.isInspector THEN <<>>
  ELSE IF broker.disposable THEN <<>>
  ELSE << [functionName |-> broker.name, inspector |-> broker.isInspector,
           workers |-> shrinkDraw(broker, -count)] >>

\* doShrink, lines 875-900: the loop over the deltas.
RECURSIVE shrinkDataOf(_)
shrinkDataOf(deltas) ==
  IF Len(deltas) = 0 THEN <<>>
  ELSE drawShrinkData(Head(deltas).count, Head(deltas).broker)
         \o shrinkDataOf(Tail(deltas))

\* doShrink, line 918, without the comparison.
sameCredential_Any(realWorker, worker) == TRUE

\* doShrink, line 918: realWorker.credential !== worker.credential
sameCredential(realWorker, worker) == realWorker.credential = worker.credential

\* doShrink, lines 911-925: the loop over the workers of one returned broker.
\* st: the snapshot's Broker and the stopWorker calls made so far.
RECURSIVE stopEach(_, _, _)
stopEach(st, entry, ws) ==
  IF Len(ws) = 0 THEN st
  ELSE
    LET worker == Head(ws)
        realWorker == getWorker(st.broker, entry.functionName, entry.inspector,
                                worker.name)
    IN IF realWorker.status = "none" THEN stopEach(st, entry, Tail(ws))
       ELSE IF ~sameCredential(realWorker, worker) THEN stopEach(st, entry, Tail(ws))
       ELSE stopEach([st EXCEPT !.broker.workers[worker.name].status = "Shrink",
                                !.stopCalls[worker.name] = @ + 1],
                     entry, Tail(ws))

\* doShrink, lines 910-926: the loop over the returned brokers.
RECURSIVE stopEnsured(_, _)
stopEnsured(st, brokers) ==
  IF Len(brokers) = 0 THEN st
  ELSE stopEnsured(stopEach(st, Head(brokers), Head(brokers).workers), Tail(brokers))

\* The sub-sequences of a sequence.
RECURSIVE pick(_, _)
pick(s, mask) ==
  IF Len(s) = 0 THEN <<>>
  ELSE LET rest == pick(Tail(s), [i \in 1..(Len(s) - 1) |-> mask[i + 1]])
       IN IF mask[1] THEN <<Head(s)>> \o rest ELSE rest

SubSeqs(s) == { pick(s, mask) : mask \in [1..Len(s) -> BOOLEAN] }

\* What reduceCapacity may resolve with: nothing, or each requested broker with
\* those of its workers that the data plane has drained.
Responses(data) ==
  {<<>>} \cup
  { [i \in 1..Len(data) |-> [data[i] EXCEPT !.workers = sub[i]]] :
      sub \in { f \in [1..Len(data) -> UNION { SubSeqs(data[i].workers) : i \in 1..Len(data) }] :
                  \A i \in 1..Len(data) : f[i] \in SubSeqs(data[i].workers) } }

\* shrink without the test of the shrinking flag (lines 858-860).
Shrink_NoGuard(deltas) ==
  /\ LET data == shrinkDataOf(deltas)
     IN /\ shrinkData' = data
        /\ ensured' = <<>>
        /\ stopCalls' = [n \in WorkerNames |-> 0]
        /\ shrinking' = (Len(data) # 0)
        /\ doShrinkAt' = IF Len(data) # 0 THEN "reduceCapacity" ELSE "idle"
  /\ UNCHANGED <<bvars, statsBroker, defaultShrinkStrategy, changes>>

\* shrink(deltas), up to its first suspension: dropped while another shrink
\* runs; over at once when nothing is to shrink.
Shrink(deltas) ==
  /\ IF shrinking
     THEN UNCHANGED <<shrinking, doShrinkAt, shrinkData, ensured, stopCalls>>
     ELSE LET data == shrinkDataOf(deltas)
          IN /\ shrinkData' = data
             /\ ensured' = <<>>
             /\ stopCalls' = [n \in WorkerNames |-> 0]
             /\ shrinking' = (Len(data) # 0)
             /\ doShrinkAt' = IF Len(data) # 0 THEN "reduceCapacity" ELSE "idle"
  /\ UNCHANGED <<bvars, statsBroker, defaultShrinkStrategy, changes>>

\* reduceCapacity resolved: doShrink marks and stops, then waits for the stops
\* (with nothing to stop, doShrink and shrink are over).
ReduceCapacityOk(brokers) ==
  /\ doShrinkAt = "reduceCapacity"
  /\ ensured' = brokers
  /\ LET st == stopEnsured([broker |-> statsBroker, stopCalls |-> stopCalls], brokers)
         kill == { n \in WorkerNames : st.stopCalls[n] > 0 }
     IN /\ statsBroker' = st.broker
        /\ stopCalls' = st.stopCalls
        /\ doShrinkAt' = IF kill = {} THEN "idle" ELSE "stopWorker"
        /\ shrinking' = (kill # {})
  /\ shrinkData' = IF doShrinkAt' = "idle" THEN <<>> ELSE shrinkData
  /\ UNCHANGED <<bvars, defaultShrinkStrategy, changes>>

\* reduceCapacity rejected in a shrink whose await has no finally block: the
\* flag stays set.
ReduceCapacityFail_NoFinally ==
  /\ doShrinkAt = "reduceCapacity"
  /\ doShrinkAt' = "idle"
  /\ shrinking' = shrinking
  /\ shrinkData' = <<>>
  /\ ensured' = <<>>
  /\ stopCalls' = [n \in WorkerNames |-> 0]
  /\ UNCHANGED <<bvars, statsBroker, defaultShrinkStrategy, changes>>

\* reduceCapacity rejected: doShrink throws, shrink's finally clears the flag,
\* and the locals of doShrink are gone.
ReduceCapacityFail ==
  /\ doShrinkAt = "reduceCapacity"
  /\ doShrinkAt' = "idle"
  /\ shrinking' = FALSE
  /\ shrinkData' = <<>>
  /\ ensured' = <<>>
  /\ stopCalls' = [n \in WorkerNames |-> 0]
  /\ UNCHANGED <<bvars, statsBroker, defaultShrinkStrategy, changes>>

\* Promise.all(kill) settled, resolved (ok) or rejected.
StopWorkerSettled(ok) ==
  /\ doShrinkAt = "stopWorker"
  /\ doShrinkAt' = "idle"
  /\ shrinking' = FALSE
  /\ shrinkData' = <<>>
  /\ ensured' = <<>>
  /\ stopCalls' = [n \in WorkerNames |-> 0]
  /\ UNCHANGED <<bvars, statsBroker, defaultShrinkStrategy, changes>>

\* The state manager replaces the record of a name: the worker was dropped and
\* registered again, under a new credential.
WorkerReplaced(name) ==
  /\ changes < MaxChange
  /\ statsBroker.workers[name].status # "none"
  /\ changes' = changes + 1
  /\ statsBroker' = [statsBroker EXCEPT
        !.order = Append(SelectSeq(@, LAMBDA n : n # name), name),
        !.workers[name] =
        [name |-> name, credential |-> Cardinality(WorkerNames) + changes',
         status |-> "Created",
         registerTime |-> CHOOSE t \in RegisterTimes : \A u \in RegisterTimes : u <= t,
         activeRequestCount |-> 0]]
  /\ UNCHANGED <<bvars, defaultShrinkStrategy, shrinking, doShrinkAt, shrinkData,
                 ensured, stopCalls>>

\* The state manager drops the record of a name.
WorkerGone(name) ==
  /\ changes < MaxChange
  /\ statsBroker.workers[name].status # "none"
  /\ changes' = changes + 1
  /\ statsBroker' = [statsBroker EXCEPT
        !.order = SelectSeq(@, LAMBDA n : n # name),
        !.workers[name] = NoStatsWorker]
  /\ UNCHANGED <<bvars, defaultShrinkStrategy, shrinking, doShrinkAt, shrinkData,
                 ensured, stopCalls>>

\* A data plane that stays as constructed.
BrokerQuiet ==
  /\ profile = CHOOSE p \in Profiles : p.disposable
  /\ requestQueue = <<>>
  /\ requestQueueStatus = PASS_THROUGH
  /\ workerMap = [c \in Credentials |-> NoItem]
  /\ workerHeap = {}
  /\ workers = [w \in WorkerIds |-> NoWorker]
  /\ requests = [r \in ReqIds |-> NoRequest]
  /\ tokens = profile.rateLimit
  /\ dispatched = <<>>
  /\ registerErrors = [c \in Credentials |-> 0]

\* The snapshot the controller starts from: three workers, registered in the
\* order coco, cocos, alibaba, in any status, with any register times and
\* request counts, under any strategy.
InitController ==
  /\ BrokerQuiet
  /\ ControllerIdle
  /\ defaultShrinkStrategy \in {"LCC", "FIFO"}
  /\ \E isInspector, disposableBroker, hasData \in BOOLEAN :
     \E shrinkStrategy \in ShrinkStrategies :
     \E attrs \in [WorkerNames -> [status : {"Running", "Created"},
                                   registerTime : RegisterTimes,
                                   activeRequestCount : 0..MaxCount]] :
       /\ ~(isInspector /\ disposableBroker)
       /\ ~hasData => shrinkStrategy = "undefined"
       /\ statsBroker =
            [name |-> "lambda", isInspector |-> isInspector,
             disposable |-> disposableBroker, hasData |-> hasData,
             shrinkStrategy |-> shrinkStrategy,
             order |-> <<"coco", "cocos", "alibaba">>,
             workers |-> [n \in WorkerNames |->
                            [name |-> n, credential |-> credentialRank[n],
                             status |-> attrs[n].status,
                             registerTime |-> attrs[n].registerTime,
                             activeRequestCount |-> attrs[n].activeRequestCount]]]

\* shrink called with one delta for the snapshot's broker, by a caller that is
\* not followed.
NextController ==
  \/ \E count \in (-MaxShrink)..1 :
       Shrink(<<[count |-> count, broker |-> statsBroker]>>) /\ UNCHANGED avars
  \/ \E brokers \in Responses(shrinkData) : ReduceCapacityOk(brokers) /\ UNCHANGED avars
  \/ ReduceCapacityFail /\ UNCHANGED avars
  \/ \E ok \in BOOLEAN : StopWorkerSettled(ok) /\ UNCHANGED avars
  \/ \E name \in WorkerNames : WorkerReplaced(name) /\ UNCHANGED avars
  \/ \E name \in WorkerNames : WorkerGone(name) /\ UNCHANGED avars

SpecController == InitController /\ [][NextController]_vars

\* ------------------------------------------------ control plane: autoScale
\* The snapshot the event handlers start from: the broker "lambda" with its
\* three workers, of which alibaba may not be Running yet, under the default
\* strategy.
InitScale ==
  /\ BrokerQuiet
  /\ ControllerIdle
  /\ defaultShrinkStrategy = "LCC"
  /\ \E isInspector, disposableBroker \in BOOLEAN :
     \E status \in {"Running", "Created"} :
       /\ ~(isInspector /\ disposableBroker)
       /\ statsBroker =
            [name |-> "lambda", isInspector |-> isInspector,
             disposable |-> disposableBroker, hasData |-> FALSE,
             shrinkStrategy |-> "undefined",
             order |-> <<"coco", "cocos", "alibaba">>,
             workers |-> [n \in WorkerNames |->
                            [name |-> n, credential |-> credentialRank[n],
                             status |-> IF n = "alibaba" THEN status ELSE "Running",
                             registerTime |-> IF n = "coco" THEN 1 ELSE 2,
                             activeRequestCount |-> IF n = "cocos" THEN 0 ELSE 1]]]

\* A second broker, "func", which has no worker.
FuncBrokers ==
  { [name |-> "func", isInspector |-> isInspector, disposable |-> disposableBroker,
     hasData |-> FALSE, shrinkStrategy |-> "undefined", order |-> <<>>,
     workers |-> [n \in WorkerNames |-> NoStatsWorker]] :
      isInspector \in BOOLEAN, disposableBroker \in BOOLEAN }

\* The shrinkDeltas evaluteScaleDeltas may give: at most one delta per broker,
\* in either order.
ShrinkDeltas ==
  LET L == { [count |-> c, broker |-> statsBroker] : c \in (-MaxShrink)..1 }
      F == { [count |-> c, broker |-> b] : c \in {-1, 1}, b \in FuncBrokers }
  IN {<<>>} \cup { <<l>> : l \in L } \cup { <<f>> : f \in F }
       \cup { <<l, f>> : l \in L, f \in F } \cup { <<f, l>> : l \in L, f \in F }

\* autoScale rethrowing the error of shrink at once.
afterShrink_Rethrow(call, err) ==
  IF err = "none"
  THEN [call EXCEPT !.pc = "expand", !.regular = "running", !.reservation = "running"]
  ELSE [call EXCEPT !.pc = "done", !.errors = Append(@, err), !.outcome = err]

\* autoScale, lines 833-841: the error of shrink, if any, is captured, and
\* expand and the reservation controller's expand are called.
afterShrink(call, err) ==
  [call EXCEPT !.pc = "expand",
               !.errors = IF err = "none" THEN @ ELSE Append(@, err),
               !.regular = "running", !.reservation = "running"]

\* autoScale, lines 842-848: the error of Promise.all, if any, is captured; the
\* first captured error is thrown, if any.
afterExpand(call, err) ==
  LET errors == IF err = "none" THEN call.errors ELSE Append(call.errors, err)
  IN [call EXCEPT !.pc = "done", !.errors = errors,
                  !.outcome = IF Len(errors) # 0 THEN errors[1] ELSE "resolved"]

\* The autoScale call that awaits the running shrink goes on.
resumeShrink(calls, err) ==
  [i \in AutoIds |-> IF calls[i].pc = "shrink" THEN afterShrink(calls[i], err)
                     ELSE calls[i]]

\* The next autoScale call: calls are numbered in the order they are made.
NewAutoScales == { i \in AutoIds : autoScales[i].pc = "new" }
nextAutoScale == CHOOSE i \in NewAutoScales : \A j \in NewAutoScales : i <= j

\* autoScale on a WorkerTrafficStats event, up to its first suspension: on
\* reduceCapacity inside shrink, or else on Promise.all of the expand calls.
AutoScale(deltas) ==
  /\ NewAutoScales # {}
  /\ Shrink(deltas)
  /\ autoScales' = [autoScales EXCEPT ![nextAutoScale] =
        IF ~shrinking /\ shrinking' THEN [@ EXCEPT !.pc = "shrink"]
        ELSE afterShrink(@, "none")]
  /\ UNCHANGED queueings

\* reduceCapacity resolved inside the shrink of an autoScale call.
AutoReduceCapacityOk(brokers) ==
  /\ ReduceCapacityOk(brokers)
  /\ autoScales' = IF doShrinkAt' = "idle" THEN resumeShrink(autoScales, "none")
                   ELSE autoScales
  /\ UNCHANGED queueings

\* reduceCapacity rejected inside the shrink of an autoScale call.
AutoReduceCapacityFail ==
  /\ ReduceCapacityFail
  /\ autoScales' = resumeShrink(autoScales, "reduceCapacity")
  /\ UNCHANGED queueings

\* Promise.all(kill) settled inside the shrink of an autoScale call.
AutoStopWorkerSettled(ok) ==
  /\ StopWorkerSettled(ok)
  /\ autoScales' = resumeShrink(autoScales, IF ok THEN "none" ELSE "stopWorker")
  /\ UNCHANGED queueings

\* One of the two expand calls of an autoScale call settled: Promise.all
\* resolves when both have resolved and rejects when the first one rejects.
ExpandSettled(i, which, ok) ==
  /\ autoScales[i].pc = "expand"
  /\ autoScales[i][which] = "running"
  /\ LET other == IF which = "regular" THEN "reservation" ELSE "regular"
         call == [autoScales[i] EXCEPT ![which] = IF ok THEN "ok" ELSE "failed"]
     IN autoScales' = [autoScales EXCEPT ![i] =
          IF ~ok THEN afterExpand(call, which)
          ELSE IF call[other] = "ok" THEN afterExpand(call, "none")
          ELSE call]
  /\ UNCHANGED <<bvars, cvars, queueings>>

NextAutoScale ==
  \/ \E deltas \in ShrinkDeltas : AutoScale(deltas)
  \/ \E brokers \in Responses(shrinkData) : AutoReduceCapacityOk(brokers)
  \/ AutoReduceCapacityFail
  \/ \E ok \in BOOLEAN : AutoStopWorkerSettled(ok)
  \/ \E i \in AutoIds, which \in {"regular", "reservation"}, ok \in BOOLEAN :
       ExpandSettled(i, which, ok)

SpecAutoScale == InitScale /\ [][NextAutoScale]_vars

\* ------------------------------- control plane: expandDueToQueueingRequest
\* The data-plane clients a RequestQueueing event may come from.
Clients == {"dp1", "dp2"}

\* expandDueToQueueingRequest without the capacity manager's test.
startQueueing_NoCapacityTest(call, client, allow, hasProfile) ==
  LET event == [call EXCEPT !.client = client, !.allow = allow,
                            !.profiled = hasProfile]
  IN IF ~hasProfile THEN [event EXCEPT !.pc = "done", !.outcome = "kNoFunction"]
     ELSE [event EXCEPT !.pc = "launch", !.tryLaunch = @ + 1, !.launch = "running"]

\* expandDueToQueueingRequest, lines 748-782: up to the await of tryLaunch.
startQueueing(call, client, allow, hasProfile) ==
  LET event == [call EXCEPT !.client = client, !.allow = allow,
                            !.profiled = hasProfile]
  IN IF ~allow THEN [event EXCEPT !.pc = "done", !.outcome = "returned"]
     ELSE IF ~hasProfile THEN [event EXCEPT !.pc = "done", !.outcome = "kNoFunction"]
     ELSE [event EXCEPT !.pc = "launch", !.tryLaunch = @ + 1, !.launch = "running"]

\* expandDueToQueueingRequest returning from its catch block.
afterLaunch_NoSync(call, ok) ==
  IF ok
  THEN [call EXCEPT !.launch = "ok", !.pc = "sync", !.sync = @ + 1,
                    !.syncRpc = "running"]
  ELSE [call EXCEPT !.launch = "failed", !.pc = "done", !.outcome = "returned",
                    !.fastFail = Append(@, call.client), !.fastFailRpc = "running"]

\* expandDueToQueueingRequest, lines 783-810: tryLaunch settled; on a failure
\* startWorkerFastFail is sent to the event's client and not awaited; then
\* syncWorkerData is called and awaited.
afterLaunch(call, ok) ==
  LET sent == IF ok THEN [call EXCEPT !.launch = "ok"]
              ELSE [call EXCEPT !.launch = "failed",
                                !.fastFail = Append(@, call.client),
                                !.fastFailRpc = "running"]
  IN [sent EXCEPT !.pc = "sync", !.sync = @ + 1, !.syncRpc = "running"]

\* The next RequestQueueing event: events are numbered as they arrive.
NewQueueings == { e \in EventIds : queueings[e].pc = "new" }
nextQueueing == CHOOSE e \in NewQueueings : \A f \in NewQueueings : e <= f

\* A RequestQueueing event arrives: the handler runs up to its first await.
Queueing(client, allow, hasProfile) ==
  /\ NewQueueings # {}
  /\ queueings' = [queueings EXCEPT ![nextQueueing] =
                      startQueueing(@, client, allow, hasProfile)]
  /\ UNCHANGED <<bvars, cvars, autoScales>>

\* tryLaunch settled.
LaunchSettled(e, ok) ==
  /\ queueings[e].pc = "launch"
  /\ queueings' = [queueings EXCEPT ![e] = afterLaunch(@, ok)]
  /\ UNCHANGED <<bvars, cvars, autoScales>>

\* startWorkerFastFail settled: a rejection is logged by its catch handler.
FastFailSettled(e, ok) ==
  /\ queueings[e].fastFailRpc = "running"
  /\ queueings' = [queueings EXCEPT ![e].fastFailRpc = IF ok THEN "ok" ELSE "failed"]
  /\ UNCHANGED <<bvars, cvars, autoScales>>

\* syncWorkerData settled (lines 808-815): a rejection is logged; the handler
\* returns.
SyncSettled(e, ok) ==
  /\ queueings[e].pc = "sync"
  /\ queueings' = [queueings EXCEPT ![e].syncRpc = IF ok THEN "ok" ELSE "failed",
                                    ![e].pc = "done",
                                    ![e].outcome = "returned"]
  /\ UNCHANGED <<bvars, cvars, autoScales>>

NextQueueing ==
  \/ \E client \in Clients, allow \in BOOLEAN, hasProfile \in BOOLEAN :
       Queueing(client, allow, hasProfile)
  \/ \E e \in EventIds, ok \in BOOLEAN : LaunchSettled(e, ok)
  \/ \E e \in EventIds, ok \in BOOLEAN : FastFailSettled(e, ok)
  \/ \E e \in EventIds, ok \in BOOLEAN : SyncSettled(e, ok)

SpecQueueing == InitScale /\ [][NextQueueing]_vars

\* ------------------------------------------------------------------ claims
\* The Worker objects getAvailableWorker can select that are free.
FreeWorkers ==
  { w \in workerHeap : isWorkerFree(Cur, w) }

\* C1: whenever queueStatus is PASS_THROUGH the pending request queue is empty.
C1_PassThroughImpliesEmpty ==
  requestQueueStatus = PASS_THROUGH => Len(requestQueue) = 0

\* C1 witness: the queue was filled and then drained by a worker, and the broker
\* is back to PASS_THROUGH.
C1_Witness ==
  /\ Len(dispatched) >= 2
  /\ requestQueueStatus = PASS_THROUGH

\* C2 (as stated): queueStatus is PASS_THROUGH exactly when the queue is empty.
C2_PassThroughIffEmpty ==
  requestQueueStatus = PASS_THROUGH <=> Len(requestQueue) = 0

\* The free workers whose credential is Bound to them in the worker index.
FreeBoundWorkers ==
  { w \in FreeWorkers :
      /\ workerMap[workers[w].credential].status = BOUND
      /\ workerMap[workers[w].credential].worker = w }

\* C3 (as stated): an invoke that passes admission while a bound worker is free
\* is piped to a worker and is not placed in the pending queue.
C3_FreeWorkerMeansDirect ==
  [][\A r \in ReqIds :
       ( /\ requests[r].state = "new"
         /\ requests'[r].state # "new"
         /\ requests'[r].err # "RESOURCE_EXHAUSTED"
         /\ FreeBoundWorkers # {} )
       => requests'[r].state \in {"inspect", "trigger"}]_vars

\* C4: a PendingRequest is never settled twice (resolve and reject together at
\* most once), a PendingRequest that has left the broker was settled exactly
\* once, and once it is settled its deadline timer is not active.
C4_SettledExactlyOnce ==
  \A r \in ReqIds :
    requests[r].pending =>
      /\ requests[r].resolves + requests[r].rejects <= 1
      /\ requests[r].state \in {"stream", "done", "failed", "timedout", "fastfailed"}
           => requests[r].resolves + requests[r].rejects = 1
      /\ requests[r].resolves + requests[r].rejects = 1
           => requests[r].timer # "active"

\* C4 witness: one PendingRequest resolved by a worker, one rejected by its
\* timer and one rejected by fast-fail.
C4_Witness ==
  \E a, b, c \in ReqIds :
    /\ requests[a].pending /\ requests[a].resolves = 1
    /\ requests[b].state = "timedout" /\ requests[b].rejects = 1
    /\ requests[c].state = "fastfailed" /\ requests[c].rejects = 1

\* C5: the requests piped from the queue are piped in arrival order (request
\* ids are handed out in arrival order), and a request whose deadline timer
\* fired is never among them.
C5_QueueIsFifo ==
  /\ \A i, j \in 1..Len(dispatched) : i < j => dispatched[i] < dispatched[j]
  /\ \A r \in ReqIds :
       requests[r].timer = "fired" => \A i \in 1..Len(dispatched) : dispatched[i] # r

\* C5 witness: three requests were queued, the middle one timed out, and the
\* other two were piped, the older one first.
C5_Witness ==
  /\ dispatched = <<1, 3>>
  /\ requests[2].state = "timedout"

\* C6 (as stated): a queued request is not left waiting until its deadline
\* while a bound worker is free: no deadline timer fires on a queued request in
\* a state where some bound worker is free.
C6_NoTimeoutWhileWorkerFree ==
  [][\A r \in ReqIds :
       (requests[r].state = "queued" /\ requests'[r].state = "timedout")
       => FreeBoundWorkers = {}]_vars

\* C7 (as stated): a worker of a disposable broker is handed at most one
\* request in its lifetime.
C7_DisposableServesOnce ==
  disposable => \A w \in WorkerIds : workers[w].served <= 1

\* C8: no worker's activeRequestCount is ever negative.
C8_CountNonNegative ==
  \A w \in WorkerIds : workers[w].activeRequestCount >= 0

\* C8 witness: a worker counted two requests and both response bodies finished.
C8_Witness ==
  \E w \in workerHeap, a, b \in ReqIds :
    /\ a # b
    /\ requests[a].state = "done" /\ requests[b].state = "done"
    /\ workers[w].activeRequestCount = 0
    /\ ~disposable

\* C9 (as stated): a worker's activeRequestCount is the number of requests it
\* has counted whose trigger has not failed and whose body has not finished.
C9_CountIsInFlight ==
  \A w \in workerHeap :
    workers[w].activeRequestCount =
      Cardinality({ r \in ReqIds : /\ requests[r].w = w
                                  /\ requests[r].state \in {"trigger", "stream"} })

\* C10 (as stated): no two Worker objects the broker can select share a
\* credential.
C10_CredentialsDistinct ==
  \A v, w \in workerHeap : v # w => workers[v].credential # workers[w].credential

\* C11: a worker that invoke got from getAvailableWorker had, at the moment of
\* selection, trafficOff = false and activeRequestCount < maxActivateRequests.
C11_SelectedWorkerIsFree ==
  [][\A r \in ReqIds :
       ( /\ requests[r].state = "new"
         /\ requests'[r].state \in {"inspect", "trigger"} )
       => /\ requests'[r].w \in workerHeap
          /\ ~workers[requests'[r].w].trafficOff
          /\ workers[requests'[r].w].activeRequestCount < maxActivateRequests]_vars

\* C11 witness: two invoke calls were piped directly, one after the other, to
\* the same worker, which now counts both.
C11_Witness ==
  \E w \in workerHeap, a, b \in ReqIds :
    /\ a # b
    /\ requests[a].w = w /\ ~requests[a].pending
    /\ requests[b].w = w /\ ~requests[b].pending
    /\ workers[w].activeRequestCount = 2

\* The entry of a worker name in a reduceCapacity argument or result, as a set
\* (empty when the name is not in it).
entriesOf(brokers, name) ==
  { e \in UNION { { brokers[i].workers[j] : j \in 1..Len(brokers[i].workers) } :
                    i \in 1..Len(brokers) } : e.name = name }

\* C12: when reduceCapacity returns, stopWorker is called once for each worker
\* it returned whose credential is the credential of the state manager's record
\* of that name, and those records are marked Shrink; a worker that was asked
\* for and not returned, that the state manager does not know, or whose record
\* has another credential is neither stopped nor marked; and no stopWorker call
\* and no Shrink mark is made at any other moment.
C12_StopsExactlyTheEnsured ==
  [][\A name \in WorkerNames :
       LET record == statsBroker.workers[name]
           returns == doShrinkAt = "reduceCapacity" /\ doShrinkAt' # "reduceCapacity"
           match == /\ record.status # "none"
                    /\ \E e \in entriesOf(ensured', name) : e.credential = record.credential
       IN /\ returns =>
               /\ stopCalls'[name] = IF match THEN 1 ELSE 0
               /\ statsBroker'.workers[name].status = "Shrink"
                    <=> (match \/ record.status = "Shrink")
          /\ ~returns =>
               /\ stopCalls'[name] <= stopCalls[name]
               /\ statsBroker'.workers[name].status = "Shrink"
                    => record.status = "Shrink"]_vars

\* C12 witness: three workers were asked for; one came back and is being
\* stopped, one came back after its name was registered again under another
\* credential, and one did not come back.
C12_Witness ==
  /\ doShrinkAt = "stopWorker"
  /\ \E a, b, c \in WorkerNames :
       /\ stopCalls[a] = 1 /\ statsBroker.workers[a].status = "Shrink"
       /\ entriesOf(ensured, b) # {}
       /\ stopCalls[b] = 0 /\ statsBroker.workers[b].status = "Created"
       /\ entriesOf(shrinkData, c) # {} /\ entriesOf(ensured, c) = {}
       /\ stopCalls[c] = 0 /\ statsBroker.workers[c].status = "Running"

\* The names of the Running workers of the snapshot's broker, and the orders in
\* which the broker's Map may hold its names.
RunningNames ==
  { n \in WorkerNames : statsBroker.workers[n].status = "Running" }

MapOrders ==
  LET names == { statsBroker.order[i] : i \in 1..Len(statsBroker.order) }
  IN { o \in [1..Len(statsBroker.order) -> names] :
         \A i, j \in 1..Len(statsBroker.order) : i # j => o[i] # o[j] }

\* C13: for every n, shrinkDraw(broker, n) does not depend on the order in which
\* the broker's Map holds the workers, names only Running workers (with their
\* credentials), names no worker twice, and has exactly min(n, number of
\* Running workers) entries.
C13_DrawIsFunctionOfWorkerSet ==
  \A n \in 0..MaxShrink :
    LET drawn == shrinkDraw(statsBroker, n)
    IN /\ \A o \in MapOrders : shrinkDraw([statsBroker EXCEPT !.order = o], n) = drawn
       /\ \A i \in 1..Len(drawn) :
            /\ drawn[i].name \in RunningNames
            /\ drawn[i].credential = statsBroker.workers[drawn[i].name].credential
       /\ \A i, j \in 1..Len(drawn) : i # j => drawn[i].name # drawn[j].name
       /\ Len(drawn) = IF n < Cardinality(RunningNames) THEN n
                       ELSE Cardinality(RunningNames)

\* C13 witness: a shrink drew two victims out of two Running workers and one
\* that is not Running, in an order that is not the Map's.
C13_Witness ==
  /\ doShrinkAt = "reduceCapacity"
  /\ changes = 0
  /\ Cardinality(RunningNames) = 2
  /\ Len(shrinkData[1].workers) = 2
  /\ shrinkData[1].workers[1].name = "alibaba"
  /\ shrinkData[1].workers[2].name = "coco"

\* The strategy shrinkDraw is to follow, and the order it is to draw in.
effectiveStrategy ==
  LET given == IF statsBroker.hasData /\ statsBroker.shrinkStrategy # "undefined"
               THEN statsBroker.shrinkStrategy ELSE defaultShrinkStrategy
  IN IF given \in {"FIFO", "FILO"} THEN given ELSE "LCC"

strategyKey(w) ==
  CASE effectiveStrategy = "FIFO" -> w.registerTime
    [] effectiveStrategy = "FILO" -> 0 - w.registerTime
    [] OTHER -> w.activeRequestCount

drawnBefore(a, b) ==
  \/ strategyKey(a) < strategyKey(b)
  \/ strategyKey(a) = strategyKey(b) /\ a.credential < b.credential

Queued == { requestQueue[i] : i \in 1..Len(requestQueue) }

\* C15: when the deadline timer of a request in the queue fires, the request
\* is marked unavailable, it alone leaves the queue (which gets one shorter),
\* and it is rejected, once, with DEADLINE_EXCEEDED; from then on it is never
\* in the queue again and never piped to a worker.
C15_TimeoutLeavesQueue ==
  [][\A r \in ReqIds :
       /\ ( /\ r \in Queued
            /\ requests[r].timer = "active"
            /\ requests'[r].timer = "fired" )
          => /\ ~requests'[r].available
             /\ requestQueue' = SelectSeq(requestQueue, LAMBDA x : x # r)
             /\ Len(requestQueue') = Len(requestQueue) - 1
             /\ requests'[r].err = "DEADLINE_EXCEEDED"
             /\ requests'[r].rejects = requests[r].rejects + 1
             /\ requests'[r].resolves = 0
             /\ requests'[r].state = "timedout"
       /\ requests[r].timer = "fired"
          => /\ requests'[r] = requests[r]
             /\ \A i \in 1..Len(requestQueue') : requestQueue'[i] # r
             /\ \A i \in 1..Len(dispatched') : dispatched'[i] # r]_vars

\* C15 witness: the oldest of three queued requests timed out; the next one
\* was then piped to a worker and the third is still waiting.
C15_Witness ==
  /\ requests[1].state = "timedout"
  /\ requests[1].err = "DEADLINE_EXCEEDED"
  /\ dispatched = <<2>>
  /\ requestQueue = <<3>>

\* C16: fastFailAllPendingsDueToStartError with fatal set, or under a profile
\* with fastFailRequestsOnStarting, empties the queue in one step, rejects every
\* request that was in it, once, with the given message, and leaves none of
\* their timers active; without either it changes nothing.  A request failed
\* this way never changes again: it does not time out and is not piped.
C16_FastFailRejectsAllQueued ==
  [][/\ \A fatal \in BOOLEAN :
          FastFail(fatal) =>
            IF fatal \/ profile.fastFailRequestsOnStarting
            THEN /\ requestQueue' = <<>>
                 /\ requestQueueStatus' = requestQueueStatus
                 /\ \A r \in ReqIds :
                      IF r \in Queued
                      THEN /\ requests'[r].state = "fastfailed"
                           /\ requests'[r].err = "FAST_FAIL"
                           /\ requests'[r].rejects = requests[r].rejects + 1
                           /\ requests'[r].resolves = 0
                           /\ requests'[r].timer = "stopped"
                      ELSE requests'[r] = requests[r]
            ELSE UNCHANGED vars
     /\ \A r \in ReqIds :
          requests[r].state = "fastfailed"
          => /\ requests'[r] = requests[r]
             /\ \A i \in 1..Len(requestQueue') : requestQueue'[i] # r
             /\ \A i \in 1..Len(dispatched') : dispatched'[i] # r]_vars

\* C16 witness: two queued requests were failed together by a fatal start
\* error under a profile without fastFailRequestsOnStarting, and a request
\* that came later is queued.
C16_Witness ==
  /\ ~profile.fastFailRequestsOnStarting
  /\ requests[1].state = "fastfailed" /\ requests[1].timer = "stopped"
  /\ requests[2].state = "fastfailed" /\ requests[2].timer = "stopped"
  /\ requestQueue = <<3>>

\* C17: an invoke made while the broker has a rate limit and its bucket has no
\* token fails with RESOURCE_EXHAUSTED and changes nothing else: the queue, the
\* queue status, the workers and their counts and the bucket stay as they were,
\* and no RequestQueueing is broadcast for it.  Any other invoke, and so every
\* invoke of a broker without a rate limit, is not failed by admission.
C17_RateLimitFailsUntouched ==
  [][\A r \in ReqIds :
       (requests[r].state = "new" /\ requests'[r].state # "new")
       => IF profile.rateLimit # 0 /\ tokens = 0
          THEN /\ requests'[r].state = "failed"
               /\ requests'[r].err = "RESOURCE_EXHAUSTED"
               /\ requests'[r].queueing = 0
               /\ ~requests'[r].pending
               /\ requestQueue' = requestQueue
               /\ requestQueueStatus' = requestQueueStatus
               /\ workers' = workers
               /\ dispatched' = dispatched
               /\ tokens' = tokens
          ELSE requests'[r].err # "RESOURCE_EXHAUSTED"]_vars

\* C17 witness: with a request waiting in the queue, a second invoke found the
\* bucket empty and failed; after a refill a third one was queued behind the
\* first.
C17_Witness ==
  /\ requests[2].err = "RESOURCE_EXHAUSTED"
  /\ requests[2].state = "failed"
  /\ requestQueue = <<1, 3>>

\* C18: under a profile that disables the request queue, an admitted invoke
\* that finds no free worker broadcasts RequestQueueing once and fails with the
\* no-available-worker error; no PendingRequest (and no timer) is created for
\* it, the queue is and stays empty, and the queue status is unchanged.
C18_QueueDisabledFailsAtOnce ==
  [][\A r \in ReqIds :
       ( /\ profile.disableRequestQueue
         /\ requests[r].state = "new" /\ requests'[r].state # "new"
         /\ requests'[r].err # "RESOURCE_EXHAUSTED"
         /\ FreeWorkers = {} )
       => /\ requests'[r].state = "failed"
          /\ requests'[r].err = "NO_WORKER"
          /\ requests'[r].queueing = 1
          /\ ~requests'[r].pending
          /\ requests'[r].timer = "none"
          /\ requestQueue = <<>> /\ requestQueue' = <<>>
          /\ requestQueueStatus' = requestQueueStatus]_vars

\* C18 witness: with the queue disabled, one invoke failed for want of any
\* worker, and a later one failed while the only worker was at its limit.
C18_Witness ==
  /\ profile.disableRequestQueue
  /\ requests[1].err = "NO_WORKER" /\ requests[1].queueing = 1
  /\ requests[3].err = "NO_WORKER" /\ requests[3].queueing = 1
  /\ \E w \in workerHeap :
       /\ requests[2].w = w
       /\ workers[w].activeRequestCount = maxActivateRequests

\* C19: when invoke asks getAvailableWorker, the worker it gets is in the
\* selection index and no worker of the index with trafficOff = false has a
\* smaller activeRequestCount; it gets none (and the request is queued or, with
\* the queue disabled, failed) only when no worker of the index is free.
C19_SelectsLeastLoaded ==
  [][\A r \in ReqIds :
       ( /\ requests[r].state = "new" /\ requests'[r].state # "new"
         /\ requests'[r].err # "RESOURCE_EXHAUSTED"
         /\ requestQueueStatus = PASS_THROUGH )
       => IF requests'[r].state \in {"inspect", "trigger"}
          THEN /\ requests'[r].w \in workerHeap
               /\ \A v \in workerHeap :
                    ~workers[v].trafficOff
                    => workers[requests'[r].w].activeRequestCount
                         <= workers[v].activeRequestCount
          ELSE FreeWorkers = {}]_vars

\* C19 witness: with two workers that may each take two requests, two invoke
\* calls were piped directly, one to each worker.
C19_Witness ==
  /\ maxActivateRequests = 2
  /\ \E v, w \in workerHeap, a, b \in ReqIds :
       /\ v # w
       /\ requests[a].w = v /\ ~requests[a].pending
       /\ requests[b].w = w /\ ~requests[b].pending
       /\ workers[v].activeRequestCount = 1
       /\ workers[w].activeRequestCount = 1

\* C20: a request is piped only to a Worker whose bindWorker call has completed
\* (its credential was set Bound): invoke pipes only to such a worker, never to
\* one whose init is in progress or has failed; and a request leaves the queue
\* for a worker only in the step that completes that worker's bind or in the
\* step in which a request of that worker finishes and is counted off.
C20_PipedOnlyAfterBind ==
  [][\A r \in ReqIds :
       LET w == requests'[r].w
       IN /\ ( requests[r].state = "new"
               /\ requests'[r].state \in {"inspect", "trigger"} )
             => workers[w].init = "ok"
          /\ ( requests[r].state = "queued"
               /\ requests'[r].state \in {"inspect", "trigger"} )
             => \/ /\ workers[w].init = "pending"
                   /\ workers'[w].init = "ok"
                   /\ workerMap'[workers'[w].credential].status = BOUND
                   /\ workerMap'[workers'[w].credential].worker = w
                \/ /\ workers[w].init = "ok"
                   /\ \E q \in ReqIds :
                        /\ requests[q].w = w
                        /\ requests[q].state = "stream"
                        /\ requests'[q].state = "done"]_vars

\* C20 witness: a completed bind drained the first queued request; the second
\* still waits while another worker's init is in progress.
C20_Witness ==
  /\ dispatched = <<1>>
  /\ requests[2].state = "queued"
  /\ \E w \in WorkerIds : workers[w].init = "pending"

\* C21: when the init call of bindWorker(credential) fails, resetPeer is
\* requested for that credential and the error goes to the caller, and nothing
\* else happens: the worker index is as it was (an entry that is Pending stays
\* Pending with no worker), the Worker is not added to the selection index, the
\* queue and its status are untouched and no queued request is piped.  The
\* Worker of a failed init is never selectable afterwards.
C21_InitFailureChangesNothing ==
  [][\A w \in WorkerIds :
       /\ (workers[w].init = "pending" /\ workers'[w].init \notin {"pending", "ok"})
          => /\ workers'[w].init = "failed"
             /\ workers'[w].credential = workers[w].credential
             /\ workerMap' = workerMap
             /\ workerMap[workers[w].credential].status = PENDING
                  => /\ workerMap'[workers[w].credential].status = PENDING
                     /\ workerMap'[workers[w].credential].worker = 0
             /\ workerHeap' = workerHeap
             /\ w \notin workerHeap'
             /\ requestQueue' = requestQueue
             /\ requestQueueStatus' = requestQueueStatus
             /\ requests' = requests
             /\ dispatched' = dispatched
       /\ workers[w].init = "failed"
          => /\ workers'[w] = workers[w]
             /\ w \notin workerHeap'
             /\ \A c \in Credentials : workerMap'[c].worker # w
             /\ \A r \in ReqIds : requests'[r].w # w]_vars

\* C21 witness: with a request waiting in the queue, the init of the only
\* worker failed; the request still waits and the credential is still Pending.
C21_Witness ==
  /\ requestQueue = <<1>>
  /\ requestQueueStatus = QUEUEING
  /\ workerHeap = {}
  /\ \E w \in WorkerIds :
       /\ workers[w].init = "failed"
       /\ workerMap[workers[w].credential].status = PENDING
       /\ workerMap[workers[w].credential].worker = 0

\* C22: a registerCredential call throws only on a credential that is Pending,
\* and then the worker index, the selection index and the workers are as they
\* were; a Pending entry is never replaced by a registration (it changes only
\* by being bound or removed); and a credential absent from the index that is
\* registered enters it as Pending under the given name, with no worker,
\* without an error and with the other entries untouched.
C22_RegisterPendingThrows ==
  [][\A c \in Credentials :
       /\ registerErrors'[c] # registerErrors[c]
          => /\ workerMap[c].status = PENDING
             /\ registerErrors'[c] = registerErrors[c] + 1
             /\ workerMap' = workerMap
             /\ workerHeap' = workerHeap
             /\ workers' = workers
       /\ (workerMap[c].status = PENDING /\ workerMap'[c] # workerMap[c])
          => workerMap'[c].status \in {BOUND, "NONE"}
       /\ (workerMap[c].status = "NONE" /\ workerMap'[c].status = PENDING)
          => /\ workerMap'[c].name \in Names
             /\ workerMap'[c].worker = 0
             /\ \A d \in Credentials \ {c} : workerMap'[d] = workerMap[d]
             /\ workerHeap' = workerHeap
             /\ registerErrors' = registerErrors]_vars

\* C22 witness: a second registration of a Pending credential threw and the
\* entry is still Pending with no worker, next to a Bound credential.
C22_Witness ==
  \E c, d \in Credentials :
    /\ registerErrors[c] = 1
    /\ workerMap[c].status = PENDING /\ workerMap[c].worker = 0
    /\ workerMap[d].status = BOUND /\ registerErrors[d] = 0

\* The autoScale calls whose shrink is executing doShrink.
Shrinkers == { i \in AutoIds : autoScales[i].pc = "shrink" }

\* C23: at most one doShrink executes at any time; a shrink called while
\* another is in progress (suspended on reduceCapacity or on stopWorker) returns
\* at once, and its caller goes on, without a reduceCapacity or stopWorker call
\* and with the running shrink untouched; and it is not queued: a doShrink starts
\* only in the step in which its caller calls shrink with the flag clear, and a
\* caller whose shrink was dropped never executes it later.
C23_ShrinkIsSingleFlight ==
  [][/\ Cardinality({ i \in AutoIds : autoScales'[i].pc = "shrink" }) <= 1
     /\ \A i \in AutoIds :
          /\ (autoScales[i].pc = "new" /\ autoScales'[i].pc # "new" /\ shrinking)
             => /\ autoScales'[i].pc = "expand"
                /\ UNCHANGED <<shrinking, doShrinkAt, shrinkData, ensured, stopCalls,
                               statsBroker>>
          /\ (autoScales[i].pc # "shrink" /\ autoScales'[i].pc = "shrink")
             => autoScales[i].pc = "new" /\ ~shrinking /\ Shrinkers = {}
     /\ (doShrinkAt' = "reduceCapacity" /\ doShrinkAt # "reduceCapacity")
        => /\ doShrinkAt = "idle" /\ ~shrinking
           /\ \E i \in AutoIds : autoScales[i].pc = "new" /\ autoScales'[i].pc = "shrink"
     /\ (\E n \in WorkerNames : stopCalls'[n] > stopCalls[n])
        => doShrinkAt = "reduceCapacity" /\ Shrinkers = Shrinkers']_vars

\* C23 witness: while the shrink of the first autoScale call waits for its
\* stopWorker calls, a second autoScale call asked to shrink too; it went on to
\* its expand phase and finished, and the first is still waiting.
C23_Witness ==
  /\ autoScales[1].pc = "shrink"
  /\ doShrinkAt = "stopWorker"
  /\ autoScales[2].pc = "done"
  /\ autoScales[2].errors = <<>>

\* The deltas that ask to shrink a broker that may be shrunk.
eligible(delta) ==
  /\ delta.count < 0
  /\ ~delta.broker.isInspector
  /\ ~delta.broker.disposable

\* C24: a shrink pass calls reduceCapacity at most once.  A shrink that finds
\* the flag clear calls it, right away, exactly when some delta has count < 0
\* and a broker that is neither an inspector broker nor disposable, with one
\* entry per such delta, in the order of the deltas, each naming the delta's
\* broker and the victims drawn for |count|; the other deltas add nothing.  When
\* no delta is eligible the pass is over at once, with no reduceCapacity and no
\* stopWorker call.  The call's argument is fixed while it is in flight, and no
\* second call follows it within the pass.
C24_OneReduceCapacityPerPass ==
  [][/\ \A deltas \in ShrinkDeltas :
          (~shrinking /\ autoScales' # autoScales /\ AutoScale(deltas)) =>
            LET want == SelectSeq(deltas, eligible)
            IN /\ stopCalls' = [n \in WorkerNames |-> 0]
               /\ statsBroker' = statsBroker
               /\ IF Len(want) = 0
                  THEN /\ doShrinkAt' = "idle"
                       /\ shrinkData' = <<>>
                       /\ ~shrinking'
                       /\ autoScales'[nextAutoScale].pc = "expand"
                  ELSE /\ doShrinkAt' = "reduceCapacity"
                       /\ autoScales'[nextAutoScale].pc = "shrink"
                       /\ Len(shrinkData') = Len(want)
                       /\ \A k \in 1..Len(want) :
                            /\ shrinkData'[k].functionName = want[k].broker.name
                            /\ shrinkData'[k].inspector = FALSE
                            /\ shrinkData'[k].workers
                                 = shrinkDraw(want[k].broker, 0 - want[k].count)
                            /\ want[k].broker = statsBroker
                                 => Len(shrinkData'[k].workers)
                                      = IF 0 - want[k].count < Cardinality(RunningNames)
                                        THEN 0 - want[k].count
                                        ELSE Cardinality(RunningNames)
     /\ (doShrinkAt' = "reduceCapacity" /\ doShrinkAt # "reduceCapacity")
        => doShrinkAt = "idle"
     /\ (doShrinkAt = "reduceCapacity" /\ doShrinkAt' = "reduceCapacity")
        => shrinkData' = shrinkData
     /\ doShrinkAt = "stopWorker" => doShrinkAt' \in {"stopWorker", "idle"}
     /\ doShrinkAt' = "idle" => shrinkData' = <<>>]_vars

\* C24 witness: one reduceCapacity call is in flight with two entries, for
\* "func" (which has no worker to give) and for "lambda" with two victims.
C24_Witness ==
  /\ doShrinkAt = "reduceCapacity"
  /\ Len(shrinkData) = 2
  /\ shrinkData[1].functionName = "func" /\ shrinkData[1].workers = <<>>
  /\ shrinkData[2].functionName = "lambda" /\ Len(shrinkData[2].workers) = 2

\* C25: in every autoScale call the expand phase starts only when the call's
\* shrink is over (it returned at once, or its doShrink ended or failed), and
\* then both expand calls are made, also when shrink failed; the call settles
\* only from its expand phase, when both expand calls have resolved or one has
\* rejected; it resolves when no phase failed and otherwise rejects with the
\* first error it captured, the error of shrink before that of expand.
C25_ShrinkThenExpandThenRethrow ==
  [][\A i \in AutoIds :
       LET c == autoScales[i]
           d == autoScales'[i]
       IN /\ (c.regular = "none" /\ d.regular # "none")
             => /\ d.regular = "running" /\ d.reservation = "running"
                /\ c.reservation = "none"
                /\ d.pc = "expand"
                /\ c.pc = "shrink" => (doShrinkAt' = "idle" /\ ~shrinking')
                /\ c.pc = "new" => (doShrinkAt' = doShrinkAt /\ shrinking' = shrinking)
          /\ c.pc = "shrink"
             => /\ c.regular = "none" /\ c.reservation = "none"
                /\ c.errors = <<>> /\ c.outcome = "none"
          /\ (c.pc = "shrink" /\ d.pc # "shrink")
             => /\ d.pc = "expand"
                /\ d.regular = "running" /\ d.reservation = "running"
                /\ d.outcome = "none"
                /\ d.errors \in {<<>>, <<"reduceCapacity">>, <<"stopWorker">>}
          /\ (c.pc # "done" /\ d.pc = "done")
             => /\ c.pc = "expand"
                /\ \/ d.regular = "ok" /\ d.reservation = "ok"
                   \/ d.regular = "failed" /\ d.reservation \in {"running", "ok"}
                   \/ d.reservation = "failed" /\ d.regular \in {"running", "ok"}
                /\ d.errors = <<>>
                     <=> (c.errors = <<>> /\ d.regular = "ok" /\ d.reservation = "ok")
                /\ d.outcome = IF d.errors = <<>> THEN "resolved" ELSE d.errors[1]
                /\ c.errors # <<>> => d.outcome = c.errors[1]
          /\ (d.outcome # "none") <=> (d.pc = "done")
          /\ c.pc = "done" => d = c]_vars

\* C25 witness: the stopWorker calls of an autoScale call's shrink failed, its
\* expand phase ran all the same and failed too, and the call rejected with
\* the error of shrink.
C25_Witness ==
  \E i \in AutoIds :
    /\ autoScales[i].pc = "done"
    /\ autoScales[i].errors = <<"stopWorker", "reservation">>
    /\ autoScales[i].outcome = "stopWorker"
    /\ autoScales[i].regular = "ok"

\* C26: a RequestQueueing event calls tryLaunch at most once, and only when the
\* capacity manager allows expansion and the function has a profile.  When the
\* capacity manager refuses, the handler returns at once with no tryLaunch, no
\* startWorkerFastFail and no syncWorkerData; when it allows and the profile is
\* missing, the handler fails with kNoFunction, again without any of them.
C26_LaunchOnlyIfAllowedAndProfiled ==
  [][\A e \in EventIds :
       LET c == queueings[e]
           d == queueings'[e]
           nothing == /\ d.pc = "done"
                      /\ d.tryLaunch = 0 /\ d.launch = "none"
                      /\ d.fastFail = <<>> /\ d.fastFailRpc = "none"
                      /\ d.sync = 0 /\ d.syncRpc = "none"
       IN /\ d.tryLaunch <= 1
          /\ d.tryLaunch # c.tryLaunch
             => /\ c.pc = "new" /\ d.pc = "launch"
                /\ d.allow /\ d.profiled
          /\ (c.pc = "new" /\ d.pc # "new" /\ ~d.allow)
             => nothing /\ d.outcome = "returned"
          /\ (c.pc = "new" /\ d.pc # "new" /\ d.allow /\ ~d.profiled)
             => nothing /\ d.outcome = "kNoFunction"
          /\ (c.pc = "new" /\ d.pc # "new" /\ d.allow /\ d.profiled)
             => d.tryLaunch = 1
          /\ (c.pc = "done" /\ c.tryLaunch = 0) => d = c]_vars

\* C26 witness: of two events, one was refused by the capacity manager (though
\* its function has a profile) and returned; the other was allowed, has no
\* profile, and failed with kNoFunction; neither launched.
C26_Witness ==
  \E e, f \in EventIds :
    /\ ~queueings[e].allow /\ queueings[e].profiled
    /\ queueings[e].outcome = "returned" /\ queueings[e].tryLaunch = 0
    /\ queueings[f].allow /\ ~queueings[f].profiled
    /\ queueings[f].outcome = "kNoFunction" /\ queueings[f].tryLaunch = 0

C29_ActiveRequestsWithinLimit ==
  \A w \in WorkerIds : workers[w].activeRequestCount <= maxActivateRequests

\* C30: once removeWorker(c) has taken a bound worker out of the map and the
\* array, and as long as c is not registered again, no step hands that worker a
\* request it did not already have: neither invoke nor the queue drain that runs
\* when one of its requests in flight finishes.
C30_NoDispatchAfterRemove ==
  [][\A w \in WorkerIds :
       (/\ workers[w].init = "ok"
        /\ w \notin workerHeap
        /\ workerMap[workers[w].credential] = NoItem)
       => \A r \in ReqIds : requests'[r].w = w => requests[r].w = w]_vars

\* C28: on a disposable broker, a bound worker that was handed a request and has
\* no request in flight any more (the pipe failed, or the response body has
\* finished) has trafficOff = TRUE, and RequestDrained has been broadcast for it.
\* The broadcast follows the end of the last request in the same turn (the
\* closeTraffic promise is resolved by then), so "eventually" is "by the end of
\* the step" here.
C28_DisposableWorkerDrains ==
  \A w \in WorkerIds :
    (/\ disposable
     /\ workers[w].init = "ok"
     /\ workers[w].served >= 1
     /\ \A r \in ReqIds : requests[r].w # w)
    => workers[w].trafficOff /\ workers[w].drained

\* C31: when removeWorker(c) ran while bindWorker(c) was awaiting the init call
\* (the Worker is still pending and c has no entry in the map), the step in
\* which the init call settles leaves c without an entry, does not put the
\* Worker into the array and hands it no request from the queue.
C31_RemovedCredentialStaysRemoved ==
  [][\A w \in WorkerIds :
       (/\ workers[w].init = "pending"
        /\ workerMap[workers[w].credential] = NoItem
        /\ workers'[w].init # "pending")
       => /\ workerMap'[workers[w].credential] = NoItem
          /\ w \notin workerHeap'
          /\ \A r \in ReqIds : requests'[r].w # w]_vars

\* C32: once closeTraffic was called on a worker, its trafficOff stays TRUE as
\* long as the Worker object exists, and no step starts a new pipe on it: a
\* request that arrives then is queued, refused, or piped to a worker of the
\* array whose traffic is open.
C32_TrafficOffIsMonotone ==
  [][\A w \in WorkerIds :
       workers[w].trafficOff
       => /\ workers'[w].trafficOff \/ workers'[w].init = "gone"
          /\ \A r \in ReqIds : requests'[r].w = w => requests[r].w = w
          /\ \A r \in ReqIds :
               (requests[r].state = "new" /\ requests'[r].state # "new")
               => \/ requests'[r].state \in {"queued", "failed"}
                  \/ /\ requests'[r].w \in workerHeap \ {w}
                     /\ ~workers[requests'[r].w].trafficOff]_vars

\* C32 witness: a worker of the array has its traffic closed and is idle, while
\* a request that invoke piped directly is in flight on the other worker and a
\* later request waits in the queue.
C32_Witness ==
  \E w, v \in workerHeap : \E r, q \in ReqIds :
    /\ w # v /\ r < q
    /\ workers[w].trafficOff /\ workers[w].activeRequestCount = 0
    /\ requests[r].w = v /\ ~requests[r].pending
    /\ requests[q].state = "queued"

\* C33: the shrinking flag is set exactly while some shrink call is executing
\* doShrink, so it is clear after a doShrink that returned and after one that
\* failed on reduceCapacity or on a stopWorker call; and a shrink called while
\* none is executing, with something to shrink, is not dropped: it executes
\* doShrink and asks the data plane for the workers drawn from its deltas.
C33_FlagClearWhenNoShrinkRuns ==
  [][/\ shrinking = (Shrinkers # {})
     /\ shrinking' = ({ i \in AutoIds : autoScales'[i].pc = "shrink" } # {})
     /\ (Shrinkers = {}) = (doShrinkAt = "idle")
     /\ \A deltas \in ShrinkDeltas :
          (/\ Shrinkers = {}
           /\ autoScales' # autoScales
           /\ shrinkDataOf(deltas) # <<>>
           /\ AutoScale(deltas))
          => /\ autoScales'[nextAutoScale].pc = "shrink"
             /\ shrinking' /\ doShrinkAt' = "reduceCapacity"
             /\ shrinkData' = shrinkDataOf(deltas)]_vars

\* C33 witness: the shrink of the first autoScale call failed, on
\* reduceCapacity or on a stopWorker call, and the shrink of the second call,
\* made afterwards, is executing.
C33_Witness ==
  /\ autoScales[1].errors # <<>>
  /\ autoScales[1].errors[1] \in {"reduceCapacity", "stopWorker"}
  /\ autoScales[2].pc = "shrink"
  /\ shrinking

====
